---- MODULE Spec2Model ----
(***************************************************************************)
(* Model of the image ingestion route (app/routes/images.tsx): the action  *)
(* handler that uploads an image to the R2 bucket, reads it back, asks the *)
(* AI binding for a description and inserts a row into the D1 table        *)
(* `images`, deleting the uploaded object when a later step fails.         *)
(*                                                                         *)
(* Every `await` of the handler is one step of the model: the external     *)
(* call takes effect and answers in that step, and the synchronous code    *)
(* that follows it up to the next `await` (or the return) runs with it.    *)
(* Several invocations of the handler run interleaved against the one      *)
(* bucket and the one table.  Strings are sequences of characters.         *)
(* The loader of the route, which lists the table newest first, is one     *)
(* step.                                                                   *)
(***************************************************************************)
EXTENDS Integers, Sequences, FiniteSets, TLC

\* ------------------------------------------------------------------ bounds

\* Number of invocations of action (requests), each run at most once.
NumAttempts == 2

\* Date.now() readings range over FirstClock .. MaxClock.
MaxClock == 10

\* Filenames of the key derivation runs have at most MaxNameLen characters.
MaxNameLen == 2

\* The table holds at most MaxRows rows when the listing runs begin.
MaxRows == 2

\* loader is invoked at most MaxLoads times.
MaxLoads == 2

\* ------------------------------------------------------- program constants

\* First reading of the clock: one below MaxClock, so that the readings
\* have one and two digits.
FirstClock == 9

Attempts == 1 .. NumAttempts

\* description = "Description unavailable"
Sentinel == "Description unavailable"

\* A caption returned by the model in response.description.
Caption == "a caption"

\* response.description of a response that carries no description
Undefined == "undefined"

\* formData.get("image") when the form has no such field
NoFile == [present |-> FALSE, name |-> <<>>, size |-> 0]

\* The File objects a request may carry.  The empty-named empty file is
\* what a browser submits for a file input left empty.
Files ==
    { [present |-> TRUE, name |-> <<>>, size |-> 0],
      [present |-> TRUE, name |-> <<"a", " ", "b">>, size |-> 1],
      [present |-> TRUE, name |-> <<"a", "-", "b">>, size |-> 1],
      [present |-> TRUE, name |-> <<"a", " ", " ", "b">>, size |-> 0],
      [present |-> TRUE, name |-> <<"a", "\t", "b">>, size |-> 1] }

\* let key: string | undefined
NoKey == <<>>

\* context.cloudflare.env.R2_PUBLIC_URL
R2_PUBLIC_URL == <<"https://pub.r2.dev">>

\* ---------------------------------------------------------- pure functions

IsSpace(c) == c \in {" ", "\t", "\n"}

Digit == <<"0", "1", "2", "3", "4", "5", "6", "7", "8", "9">>

\* `${Date.now()}`: the decimal digits of a non-negative integer
RECURSIVE ToDigits(_)
ToDigits(n) ==
    IF n < 10 THEN << Digit[n + 1] >>
    ELSE ToDigits(n \div 10) \o << Digit[(n % 10) + 1] >>

\* s without its leading whitespace characters
RECURSIVE DropSpaces(_)
DropSpaces(s) ==
    IF s # <<>> /\ IsSpace(Head(s)) THEN DropSpaces(Tail(s)) ELSE s

\* name.replace(/\s/g, "-"): every whitespace character becomes a "-"
SanitizeEach(s) == [i \in DOMAIN s |-> IF IsSpace(s[i]) THEN "-" ELSE s[i]]

\* name.replace(/\s+/g, "-"): every maximal run of whitespace becomes one "-"
RECURSIVE Sanitize(_)
Sanitize(s) ==
    IF s = <<>> THEN <<>>
    ELSE IF IsSpace(Head(s)) THEN <<"-">> \o Sanitize(DropSpaces(Tail(s)))
    ELSE <<Head(s)>> \o Sanitize(Tail(s))

\* A key without the timestamp.
MakeKeyUnstamped(now, name) == <<"images/">> \o Sanitize(name)

\* key = `images/${Date.now()}-${image.name.replace(/\s+/g, "-")}`
MakeKey(now, name) == <<"images/">> \o ToDigits(now) \o <<"-">> \o Sanitize(name)

\* url = `${context.cloudflare.env.R2_PUBLIC_URL}/${key}`
MakeUrl(k) == R2_PUBLIC_URL \o <<"/">> \o k

\* The key of the object a public URL resolves to.
KeyOfUrl(u) == SubSeq(u, Len(R2_PUBLIC_URL) + 2, Len(u))

\* ------------------------------------------------------------------- state

VARIABLES
    clock,        \* Date.now()
    store,        \* the R2 bucket: key -> the attempt whose image it holds
    db,           \* the table images, rows in insertion order
    pc,           \* where each invocation of action stands
    image,        \* formData.get("image") of each invocation
    key,          \* let key
    description,  \* let description
    error,        \* the error caught at line 104 or 119
    response,     \* the response action returned
    calls,        \* the calls each invocation made, with their outcome
    stamp,        \* the Date.now() each invocation read for its key
    tieOrder,     \* how the database orders rows of equal created_at
    loads         \* the answers of the invocations of loader, in order

vars == << clock, store, db, pc, image, key, description, error, response, calls,
          stamp, tieOrder, loads >>

NoResponse == [status |-> 0, success |-> FALSE, error |-> ""]

\* json({ success: true })
SuccessResponse == [status |-> 200, success |-> TRUE, error |-> ""]

\* json({ error: error.message }, { status: 500 })
ErrorResponse(msg) == [status |-> 500, success |-> FALSE, error |-> msg]

Call(op, res) == [op |-> op, res |-> res]

Init ==
    /\ clock = FirstClock
    /\ store = << >>
    /\ db = << >>
    /\ pc = [a \in Attempts |-> "idle"]
    /\ image = [a \in Attempts |-> NoFile]
    /\ key = [a \in Attempts |-> NoKey]
    /\ description = [a \in Attempts |-> Undefined]
    /\ error = [a \in Attempts |-> ""]
    /\ response = [a \in Attempts |-> NoResponse]
    /\ calls = [a \in Attempts |-> << >>]
    /\ stamp = [a \in Attempts |-> 0]
    /\ tieOrder = "asc"
    /\ loads = << >>

\* ----------------------------------------------------------------- actions

\* Time passes.
Tick ==
    /\ clock < MaxClock
    /\ clock' = clock + 1
    /\ UNCHANGED << store, db, pc, image, key, description, error, response, calls,
                    stamp, tieOrder, loads >>

\* The bucket after R2.put(key, image): the object at k is replaced.
PutObject(s, k, a) == [x \in DOMAIN s \cup {k} |-> IF x = k THEN a ELSE s[x]]

\* A delete that leaves the object in the bucket.
DeleteObjectKept(s, k) == s

\* The bucket after R2.delete(key).
DeleteObject(s, k) == [x \in DOMAIN s \ {k} |-> s[x]]

\* Lines 47-57: the request arrives, the image is taken from the form and
\* the key is derived.  Reading image.name of a missing file throws before
\* key is assigned, so the inner catch skips the delete and the outer catch
\* answers 500.
Begin(a, f) ==
    /\ pc[a] = "idle"
    /\ image' = [image EXCEPT ![a] = f]
    /\ stamp' = [stamp EXCEPT ![a] = clock]
    /\ IF f.present
         THEN /\ key' = [key EXCEPT ![a] = MakeKey(stamp'[a], f.name)]
              /\ pc' = [pc EXCEPT ![a] = "put"]
              /\ UNCHANGED << error, response >>
         ELSE /\ error' = [error EXCEPT ![a] = "TypeError"]
              /\ response' = [response EXCEPT ![a] = ErrorResponse("TypeError")]
              /\ pc' = [pc EXCEPT ![a] = "done"]
              /\ UNCHANGED key
    /\ UNCHANGED << clock, store, db, description, calls,
                    tieOrder, loads >>

\* A put that is tried again after it threw.
PutRetried(a, res) ==
    /\ pc[a] = "put"
    /\ calls' = [calls EXCEPT ![a] = Append(@, Call("put", res))]
    /\ IF res = "ok"
         THEN /\ store' = PutObject(store, key[a], a)
              /\ pc' = [pc EXCEPT ![a] = "fetch"]
              /\ UNCHANGED error
         ELSE /\ error' = [error EXCEPT ![a] = "R2 put failed"]
              /\ pc' = [pc EXCEPT ![a] = IF Len(calls[a]) = 0 THEN "put" ELSE "delete"]
              /\ UNCHANGED store
    /\ UNCHANGED << clock, db, image, key, description, response,
                    stamp, tieOrder, loads >>

\* Lines 59-66 and 104-107: await R2.put(key, image, ...).  When it throws,
\* the catch of line 104 finds key set and goes on to R2.delete.
Put(a, res) ==
    /\ pc[a] = "put"
    /\ calls' = [calls EXCEPT ![a] = Append(@, Call("put", res))]
    /\ IF res = "ok"
         THEN /\ store' = PutObject(store, key[a], a)
              /\ pc' = [pc EXCEPT ![a] = "fetch"]
              /\ UNCHANGED error
         ELSE /\ error' = [error EXCEPT ![a] = "R2 put failed"]
              /\ pc' = [pc EXCEPT ![a] = "delete"]
              /\ UNCHANGED store
    /\ UNCHANGED << clock, db, image, key, description, response,
                    stamp, tieOrder, loads >>

\* A readback that does not look at imageResponse.ok.
FetchUnchecked(a, res) ==
    /\ pc[a] = "fetch"
    /\ res = "ok" => key[a] \in DOMAIN store
    /\ calls' = [calls EXCEPT ![a] = Append(@, Call("fetch", res))]
    /\ IF res \in {"ok", "notok"}
         THEN /\ pc' = [pc EXCEPT ![a] = "describe"]
              /\ UNCHANGED error
         ELSE /\ error' = [error EXCEPT ![a] = "fetch failed"]
              /\ pc' = [pc EXCEPT ![a] = "delete"]
    /\ UNCHANGED << clock, store, db, image, key, description, response,
                    stamp, tieOrder, loads >>

\* Lines 72-78 and 104-107: await fetch(url).  The fetch answers ok only
\* when the bucket holds an object at the key; it may throw, or answer
\* with a response that is not ok.
Fetch(a, res) ==
    /\ pc[a] = "fetch"
    /\ res = "ok" => key[a] \in DOMAIN store
    /\ calls' = [calls EXCEPT ![a] = Append(@, Call("fetch", res))]
    /\ IF res = "ok"
         THEN /\ pc' = [pc EXCEPT ![a] = "describe"]
              /\ UNCHANGED error
         ELSE /\ error' = [error EXCEPT ![a] =
                    IF res = "throws" THEN "fetch failed"
                    ELSE "Failed to fetch uploaded image"]
              /\ pc' = [pc EXCEPT ![a] = "delete"]
    /\ UNCHANGED << clock, store, db, image, key, description, response,
                    stamp, tieOrder, loads >>

\* A describe step without the catch of line 87: the throw reaches line 104.
DescribeUncaught(a, res) ==
    /\ pc[a] = "describe"
    /\ calls' = [calls EXCEPT ![a] = Append(@, Call("describe", res))]
    /\ IF res = "throws"
         THEN /\ error' = [error EXCEPT ![a] = "AI run failed"]
              /\ pc' = [pc EXCEPT ![a] = "delete"]
              /\ UNCHANGED description
         ELSE /\ description' = [description EXCEPT ![a] =
                    IF res = "ok" THEN Caption ELSE Undefined]
              /\ pc' = [pc EXCEPT ![a] = "insert"]
              /\ UNCHANGED error
    /\ UNCHANGED << clock, store, db, image, key, response,
                    stamp, tieOrder, loads >>

\* Lines 80-90: await AI.run(...).  A throw is caught at line 87.
Describe(a, res) ==
    /\ pc[a] = "describe"
    /\ calls' = [calls EXCEPT ![a] = Append(@, Call("describe", res))]
    /\ description' = [description EXCEPT ![a] =
            CASE res = "ok" -> Caption
              [] res = "throws" -> Sentinel
              [] OTHER -> Undefined]
    /\ pc' = [pc EXCEPT ![a] = "insert"]
    /\ UNCHANGED << clock, store, db, image, key, error, response,
                    stamp, tieOrder, loads >>

\* The row INSERT INTO images (url, name, description) adds.
NewRow(a) ==
    [ id |-> Len(db) + 1,
      url |-> MakeUrl(key[a]),
      name |-> image[a].name,
      description |-> description[a],
      created_at |-> clock ]

\* An insert whose result is not looked at: only a throw is a failure.
InsertUnchecked(a, res) ==
    /\ pc[a] = "insert"
    /\ calls' = [calls EXCEPT ![a] = Append(@, Call("insert", res))]
    /\ IF res \in {"ok", "soft"}
         THEN /\ db' = IF res = "ok" THEN Append(db, NewRow(a)) ELSE db
              /\ response' = [response EXCEPT ![a] = SuccessResponse]
              /\ pc' = [pc EXCEPT ![a] = "done"]
              /\ UNCHANGED error
         ELSE /\ error' = [error EXCEPT ![a] = "D1 insert failed"]
              /\ pc' = [pc EXCEPT ![a] = "delete"]
              /\ UNCHANGED << db, response >>
    /\ UNCHANGED << clock, store, image, key, description,
                    stamp, tieOrder, loads >>

\* An insert followed by the cleanup whether it failed or not.
InsertCleansUp(a, res) ==
    /\ pc[a] = "insert"
    /\ calls' = [calls EXCEPT ![a] = Append(@, Call("insert", res))]
    /\ IF res = "ok"
         THEN /\ db' = Append(db, NewRow(a))
              /\ store' = DeleteObject(store, key[a])
              /\ response' = [response EXCEPT ![a] = SuccessResponse]
              /\ pc' = [pc EXCEPT ![a] = "done"]
              /\ UNCHANGED error
         ELSE /\ error' = [error EXCEPT ![a] =
                    IF res = "throws" THEN "D1 insert failed"
                    ELSE "Failed to save image details to database"]
              /\ pc' = [pc EXCEPT ![a] = "delete"]
              /\ UNCHANGED << db, response, store >>
    /\ UNCHANGED << clock, image, key, description,
                    stamp, tieOrder, loads >>

\* Lines 93-107: await DB.prepare(INSERT ...).bind(...).run().
Insert(a, res) ==
    /\ pc[a] = "insert"
    /\ calls' = [calls EXCEPT ![a] = Append(@, Call("insert", res))]
    /\ IF res = "ok"
         THEN /\ db' = Append(db, NewRow(a))
              /\ response' = [response EXCEPT ![a] = SuccessResponse]
              /\ pc' = [pc EXCEPT ![a] = "done"]
              /\ UNCHANGED error
         ELSE /\ error' = [error EXCEPT ![a] =
                    IF res = "throws" THEN "D1 insert failed"
                    ELSE "Failed to save image details to database"]
              /\ pc' = [pc EXCEPT ![a] = "delete"]
              /\ UNCHANGED << db, response >>
    /\ UNCHANGED << clock, store, image, key, description,
                    stamp, tieOrder, loads >>

\* A rollback that lets the error of R2.delete replace the caught one.
DeleteSurfaced(a, res) ==
    /\ pc[a] = "delete"
    /\ calls' = [calls EXCEPT ![a] = Append(@, Call("delete", res))]
    /\ store' = IF res = "ok" THEN DeleteObject(store, key[a]) ELSE store
    /\ response' = [response EXCEPT ![a] =
            ErrorResponse(IF res = "ok" THEN error[a] ELSE "R2 delete failed")]
    /\ pc' = [pc EXCEPT ![a] = "done"]
    /\ UNCHANGED << clock, db, image, key, description, error,
                    stamp, tieOrder, loads >>

\* A rollback whose failed delete escapes from action.
DeleteEscapes(a, res) ==
    /\ pc[a] = "delete"
    /\ calls' = [calls EXCEPT ![a] = Append(@, Call("delete", res))]
    /\ store' = IF res = "ok" THEN DeleteObject(store, key[a]) ELSE store
    /\ IF res = "ok"
         THEN /\ response' = [response EXCEPT ![a] = ErrorResponse(error[a])]
              /\ pc' = [pc EXCEPT ![a] = "done"]
         ELSE /\ pc' = [pc EXCEPT ![a] = "thrown"]
              /\ UNCHANGED response
    /\ UNCHANGED << clock, db, image, key, description, error,
                    stamp, tieOrder, loads >>

\* Lines 107-130: await R2.delete(key), whose failure is logged only; the
\* caught error is rethrown and the outer catch answers 500 with its message.
Delete(a, res) ==
    /\ pc[a] = "delete"
    /\ calls' = [calls EXCEPT ![a] = Append(@, Call("delete", res))]
    /\ store' = IF res = "ok" THEN DeleteObject(store, key[a]) ELSE store
    /\ response' = [response EXCEPT ![a] = ErrorResponse(error[a])]
    /\ pc' = [pc EXCEPT ![a] = "done"]
    /\ UNCHANGED << clock, db, image, key, description, error,
                    stamp, tieOrder, loads >>

\* One step of invocation a of action.
StepOf(a) ==
    \/ \E f \in Files \cup {NoFile} : Begin(a, f)
    \/ \E res \in {"ok", "throws"} : Put(a, res)
    \/ \E res \in {"ok", "throws", "notok"} : Fetch(a, res)
    \/ \E res \in {"ok", "throws", "nodescription"} : Describe(a, res)
    \/ \E res \in {"ok", "throws", "soft"} : Insert(a, res)
    \/ \E res \in {"ok", "throws"} : Delete(a, res)

\* Requests are served concurrently: the invocations interleave at their awaits.
Next ==
    \/ Tick
    \/ \E a \in Attempts : StepOf(a)

Spec == Init /\ [][Next]_vars

\* A single ingestion attempt: one invocation of action, served alone.
Solo == CHOOSE a \in Attempts : TRUE

NextSingle ==
    \/ Tick
    \/ StepOf(Solo)

SpecSingle == Init /\ [][NextSingle]_vars

\* The single attempt when every external call it awaits returns or fails.
SpecLive == Init /\ [][NextSingle]_vars /\ WF_vars(StepOf(Solo))

\* The characters of the filenames of the key derivation runs.
NameChars == {"a", " ", "-", "1"}

\* The files of every name of at most MaxNameLen characters.
KeyFiles ==
    { [present |-> TRUE, name |-> n, size |-> 1] :
        n \in UNION { [1 .. m -> NameChars] : m \in 0 .. MaxNameLen } }

\* Two invocations of action.
Pair == CHOOSE P \in SUBSET Attempts : Cardinality(P) = 2

\* Key derivation alone: two requests arrive, each at some reading of the
\* clock, and derive their keys (lines 47-57).
NextKeys ==
    \/ Tick
    \/ \E a \in Pair : \E f \in KeyFiles : Begin(a, f)

SpecKeys == Init /\ [][NextKeys]_vars

\* ------------------------------------------------------------------ loader

\* Row p comes before row q in ORDER BY created_at DESC.  The order of rows
\* of equal created_at is the database's: by id, one way or the other.
Before(p, q) ==
    \/ p.created_at > q.created_at
    \/ /\ p.created_at = q.created_at
       /\ IF tieOrder = "asc" THEN p.id < q.id ELSE p.id > q.id

\* ORDER BY created_at ASC
OrderByAscending(rows) ==
    LET R == { rows[i] : i \in DOMAIN rows }
    IN  [ i \in 1 .. Len(rows) |->
            CHOOSE r \in R : Cardinality({ q \in R : Before(r, q) }) = i - 1 ]

\* SELECT * FROM images ORDER BY created_at DESC
OrderBy(rows) ==
    LET R == { rows[i] : i \in DOMAIN rows }
    IN  [ i \in 1 .. Len(rows) |->
            CHOOSE r \in R : Cardinality({ q \in R : Before(q, r) }) = i - 1 ]

\* What loader answers, with the outcome of its read and the table it read.
LoaderResponse(st, imgs, msg, res) ==
    [ status |-> st, images |-> imgs, message |-> msg, read |-> res, seen |-> db ]

\* A loader that lets the failure of the read escape.
LoadUncaught(res) ==
    /\ Len(loads) < MaxLoads
    /\ loads' = Append(loads,
            IF res = "ok"
              THEN LoaderResponse("success", OrderBy(db), "", res)
              ELSE LoaderResponse("thrown", << >>, "", res))
    /\ UNCHANGED << clock, store, db, pc, image, key, description, error, response,
                    calls, stamp, tieOrder >>

\* A loader that goes on from the last row it returned before.
LoadPaged(res) ==
    /\ Len(loads) < MaxLoads
    /\ loads' = Append(loads,
            IF res = "ok"
              THEN LoaderResponse("success",
                      SelectSeq(OrderBy(db),
                          LAMBDA r : \A j \in DOMAIN loads :
                              \A k \in DOMAIN loads[j].images :
                                  loads[j].images[k].id # r.id),
                      "", res)
              ELSE LoaderResponse("error", << >>, "D1 read failed", res))
    /\ UNCHANGED << clock, store, db, pc, image, key, description, error, response,
                    calls, stamp, tieOrder >>

\* Lines 22-45: loader.  The read answers with the rows in order, or throws
\* and the catch of line 34 answers with no images and the error's message.
Load(res) ==
    /\ Len(loads) < MaxLoads
    /\ loads' = Append(loads,
            IF res = "ok"
              THEN LoaderResponse("success", OrderBy(db), "", res)
              ELSE LoaderResponse("error", << >>, "D1 read failed", res))
    /\ UNCHANGED << clock, store, db, pc, image, key, description, error, response,
                    calls, stamp, tieOrder >>

\* A row an earlier ingestion inserted at time t.
OldRow(i, t) ==
    [ id |-> i,
      url |-> MakeUrl(MakeKey(t, ToDigits(i))),
      name |-> ToDigits(i),
      description |-> Caption,
      created_at |-> t ]

\* The tables of at most MaxRows rows: ids count up from 1 and created_at,
\* the time of the insert, does not decrease with them.
Tables ==
    UNION { { [ i \in 1 .. n |-> OldRow(i, ts[i]) ] :
                ts \in { f \in [1 .. n -> FirstClock .. MaxClock] :
                           \A i, j \in 1 .. n : i < j => f[i] <= f[j] } } :
            n \in 0 .. MaxRows }

\* The listing runs start from a table earlier ingestions have filled, each
\* row with its object in the bucket, at a time not before the last insert.
InitList ==
    /\ db \in Tables
    /\ store = [ k \in { KeyOfUrl(db[i].url) : i \in DOMAIN db } |-> 0 ]
    /\ clock \in { c \in FirstClock .. MaxClock :
                     \A i \in DOMAIN db : db[i].created_at <= c }
    /\ tieOrder \in { "asc", "desc" }
    /\ loads = << >>
    /\ pc = [a \in Attempts |-> "idle"]
    /\ image = [a \in Attempts |-> NoFile]
    /\ key = [a \in Attempts |-> NoKey]
    /\ description = [a \in Attempts |-> Undefined]
    /\ error = [a \in Attempts |-> ""]
    /\ response = [a \in Attempts |-> NoResponse]
    /\ calls = [a \in Attempts |-> << >>]
    /\ stamp = [a \in Attempts |-> 0]

\* The page is loaded while one ingestion attempt runs.
NextList ==
    \/ Tick
    \/ StepOf(Solo)
    \/ \E res \in {"ok", "throws"} : Load(res)

SpecList == InitList /\ [][NextList]_vars

\* ------------------------------------------------------------- properties

\* Invocation a made a call of op.
Invoked(a, op) == \E i \in DOMAIN calls[a] : calls[a][i].op = op

\* Invocation a made a call of op that ended in res.
Ended(a, op, res) == \E i \in DOMAIN calls[a] : calls[a][i] = Call(op, res)

\* How many calls of op invocation a made.
Count(a, op) == Cardinality({i \in DOMAIN calls[a] : calls[a][i].op = op})

\* Invocation a has returned.
Returned(a) == pc[a] = "done"

\* C1: in every reachable state every row of the table has a url whose key
\* holds an object in the bucket, also when two attempts derive the same key.
C1_NoRowWithoutBlob ==
    \A i \in DOMAIN db : KeyOfUrl(db[i].url) \in DOMAIN store

\* The readback or the insert of invocation a failed.
FailedAfterPut(a) ==
    \/ Ended(a, "fetch", "throws") \/ Ended(a, "fetch", "notok")
    \/ Ended(a, "insert", "throws") \/ Ended(a, "insert", "soft")

\* C2 (P1): when an attempt whose put succeeded and whose readback or insert
\* failed returns after a successful delete, the bucket holds no object at
\* the attempt's key.
C2_RollbackRemovesBlob ==
    [][\A a \in Attempts :
         ( /\ pc[a] = "delete"
           /\ pc'[a] = "done"
           /\ Ended(a, "put", "ok")
           /\ FailedAfterPut(a)
           /\ calls'[a][Len(calls'[a])] = Call("delete", "ok") )
         => key[a] \notin DOMAIN store']_vars

C2_Witness ==
    \E a \in Attempts :
        /\ Returned(a)
        /\ Ended(a, "put", "ok")
        /\ Ended(a, "insert", "soft")
        /\ Ended(a, "delete", "ok")
        /\ key[a] \notin DOMAIN store

\* C3 (P2): an attempt whose put failed never invokes delete.
C3_NoDeleteAfterFailedPut ==
    \A a \in Attempts : Ended(a, "put", "throws") => ~ Invoked(a, "delete")

\* C4 (P3): once describe has thrown, the description is the sentinel, the
\* attempt goes on to the insert and binds the sentinel, a delete is invoked
\* only after a failed insert, and a successful insert ends in success.
C4_DescribeFailureDegrades ==
    \A a \in Attempts :
        Ended(a, "describe", "throws") =>
            /\ description[a] = Sentinel
            /\ pc[a] = "insert" \/ Invoked(a, "insert")
            /\ Invoked(a, "delete") =>
                    Ended(a, "insert", "throws") \/ Ended(a, "insert", "soft")
            /\ Ended(a, "insert", "ok") =>
                    /\ Returned(a)
                    /\ response[a] = SuccessResponse
                    /\ \E i \in DOMAIN db :
                           /\ db[i].url = MakeUrl(key[a])
                           /\ db[i].name = image[a].name
                           /\ db[i].description = Sentinel

C4_Witness ==
    \E a \in Attempts :
        /\ Ended(a, "describe", "throws")
        /\ Ended(a, "insert", "ok")
        /\ response[a] = SuccessResponse
        /\ \E i \in DOMAIN db : db[i].description = Sentinel

\* C5: an insert that reports success = false is handled as an insert that
\* throws: delete is invoked next, exactly once, and the attempt returns a
\* failure.
C5_SoftInsertFailureIsFailure ==
    \A a \in Attempts :
        (Ended(a, "insert", "soft") \/ Ended(a, "insert", "throws")) =>
            /\ pc[a] = "delete" \/ Returned(a)
            /\ ~ response[a].success
            /\ Returned(a) =>
                    /\ Count(a, "delete") = 1
                    /\ calls[a][Len(calls[a])].op = "delete"
                    /\ response[a].status = 500

C5_Witness ==
    \E a \in Attempts :
        /\ Returned(a)
        /\ Ended(a, "insert", "soft")
        /\ Count(a, "delete") = 1
        /\ response[a].status = 500

\* The message of the failure that sent invocation a to the rollback.
OriginalMessage(a) ==
    CASE Ended(a, "put", "throws") -> "R2 put failed"
      [] Ended(a, "fetch", "throws") -> "fetch failed"
      [] Ended(a, "fetch", "notok") -> "Failed to fetch uploaded image"
      [] Ended(a, "insert", "throws") -> "D1 insert failed"
      [] Ended(a, "insert", "soft") -> "Failed to save image details to database"
      [] OTHER -> "none"

\* C6: when the delete of the rollback fails, the attempt still returns a
\* failure, and the failure it reports is the one that started the rollback.
C6_DeleteFailureSwallowed ==
    \A a \in Attempts :
        (Returned(a) /\ Ended(a, "delete", "throws")) =>
            response[a] = ErrorResponse(OriginalMessage(a))

C6_Witness ==
    \E a \in Attempts :
        /\ Returned(a)
        /\ Ended(a, "fetch", "notok")
        /\ Ended(a, "delete", "throws")
        /\ response[a] = ErrorResponse("Failed to fetch uploaded image")
        /\ key[a] \in DOMAIN store

\* The input of invocation a is empty: no file, no filename or no bytes.
EmptyInput(a) == ~ image[a].present \/ image[a].name = <<>> \/ image[a].size = 0

\* C7: an attempt with an empty input derives no key and makes no call.
C7_EmptyInputRejected ==
    \A a \in Attempts :
        (pc[a] # "idle" /\ EmptyInput(a)) => (key[a] = NoKey /\ calls[a] = << >>)

\* C8: an attempt invokes each of put, fetch, describe, insert and delete at
\* most once.
C8_NoRetry ==
    \A a \in Attempts :
        \A op \in {"put", "fetch", "describe", "insert", "delete"} : Count(a, op) <= 1

C8_Witness ==
    \E a \in Attempts :
        /\ Returned(a)
        /\ Ended(a, "put", "ok")
        /\ Ended(a, "insert", "throws")
        /\ Ended(a, "delete", "throws")
        /\ Len(calls[a]) = 5

\* C9: the calls of an attempt come in the order put, fetch, describe,
\* insert: the fetch right after a successful put, describe right after a
\* successful fetch, and the insert right after describe.
C9_StepOrder ==
    \A a \in Attempts :
        \A i \in DOMAIN calls[a] :
            /\ calls[a][i].op = "put" => i = 1
            /\ calls[a][i].op = "fetch" => (i = 2 /\ calls[a][1] = Call("put", "ok"))
            /\ calls[a][i].op = "describe" => (i = 3 /\ calls[a][2] = Call("fetch", "ok"))
            /\ calls[a][i].op = "insert" => (i = 4 /\ calls[a][3].op = "describe")

C9_Witness ==
    \E a \in Attempts :
        /\ Returned(a)
        /\ calls[a] = << Call("put", "ok"), Call("fetch", "ok"),
                         Call("describe", "nodescription"), Call("insert", "ok") >>

\* Invocation a is in flight: it has derived its key and has not returned.
InFlight(a) == pc[a] \in {"put", "fetch", "describe", "insert", "delete"}

\* C10: two attempts in flight at the same time hold different keys.
C10_KeysOfConcurrentAttemptsDiffer ==
    \A a, b \in Attempts :
        (a # b /\ InFlight(a) /\ InFlight(b)) => key[a] # key[b]

\* C11: whenever AI.run delivers no caption, by throwing or by a response
\* without a description, the description the insert binds is the sentinel.
C11_NoCaptionGivesSentinel ==
    \A a \in Attempts :
        (Ended(a, "describe", "throws") \/ Ended(a, "describe", "nodescription")) =>
            /\ description[a] = Sentinel
            /\ pc[a] = "insert" \/ Invoked(a, "insert")

\* C12 (P4): two ingestion calls with the same filename that read different
\* timestamps derive different keys.
C12_KeysDifferAcrossTimestamps ==
    \A a, b \in Attempts :
        ( /\ pc[a] = "put" /\ pc[b] = "put"
          /\ image[a].name = image[b].name
          /\ stamp[a] # stamp[b] )
        => key[a] # key[b]

C12_Witness ==
    \E a, b \in Attempts :
        /\ pc[a] = "put" /\ pc[b] = "put"
        /\ image[a].name = << "1", " " >>
        /\ image[b].name = << "1", " " >>
        /\ stamp[a] # stamp[b]
        /\ key[a] # key[b]

\* The rows of a table received increasing created_at as they were inserted.
IncreasingCreatedAt(rows) ==
    \A i, j \in DOMAIN rows : i < j => rows[i].created_at < rows[j].created_at

\* C13 (P5): a listing of a table whose rows received increasing created_at
\* returns every row of the table exactly once, in strictly descending
\* created_at order.
C13_ListingNewestFirst ==
    \A n \in DOMAIN loads :
        (loads[n].status = "success" /\ IncreasingCreatedAt(loads[n].seen)) =>
            LET imgs == loads[n].images
                rows == loads[n].seen
            IN  /\ Len(imgs) = Len(rows)
                /\ \A i \in DOMAIN rows :
                       Cardinality({ k \in DOMAIN imgs : imgs[k] = rows[i] }) = 1
                /\ \A i, j \in DOMAIN imgs :
                       i < j => imgs[i].created_at > imgs[j].created_at

C13_Witness ==
    \E n \in DOMAIN loads :
        /\ loads[n].status = "success"
        /\ IncreasingCreatedAt(loads[n].seen)
        /\ Len(loads[n].seen) = 2
        /\ \E a \in Attempts : Ended(a, "insert", "ok")
        /\ loads[n].images = << loads[n].seen[2], loads[n].seen[1] >>

\* C14: a listing whose read fails answers with status "error", no images
\* and a message, and its call leaves the table and the bucket as they were.
C14_ListingDegradesOnReadFailure ==
    [][ (loads' # loads /\ loads'[Len(loads')].read = "throws") =>
            /\ loads'[Len(loads')].status = "error"
            /\ loads'[Len(loads')].images = << >>
            /\ loads'[Len(loads')].message # ""
            /\ db' = db
            /\ store' = store ]_vars

C14_Witness ==
    \E n \in DOMAIN loads :
        /\ loads[n].read = "throws"
        /\ loads[n].status = "error"
        /\ loads[n].images = << >>
        /\ loads[n].seen # << >>
        /\ db = loads[n].seen

SpacesReplaced(name) == [i \in DOMAIN name |-> IF name[i] = " " THEN "-" ELSE name[i]]

\* No character of k is a whitespace character.
NoWhitespace(k) == \A i \in DOMAIN k : k[i] \notin {" ", "\t", "\n"}

\* The row of a successful insert of invocation a has the url base "/" key.
UrlIsBaseSlashKey(a) ==
    Ended(a, "insert", "ok") =>
        \E i \in DOMAIN db :
            /\ db[i].name = image[a].name
            /\ db[i].url = R2_PUBLIC_URL \o << "/" >> \o key[a]

\* C16 as stated: the key is "images/", the timestamp, a hyphen and the
\* filename with its spaces replaced with hyphens; it contains no whitespace;
\* the url of the row is the public base URL, "/" and the key.
C16_KeyReplacesSpaces ==
    \A a \in Attempts :
        (pc[a] # "idle" /\ image[a].present) =>
            /\ key[a] = << "images/" >> \o ToDigits(stamp[a]) \o << "-" >>
                            \o SpacesReplaced(image[a].name)
            /\ NoWhitespace(key[a])
            /\ UrlIsBaseSlashKey(a)

\* The positions of the filename that do not continue a run of whitespace.
RunStarts(name) ==
    { i \in DOMAIN name :
        NoWhitespace(<< name[i] >>) \/ i = 1 \/ NoWhitespace(<< name[i - 1] >>) }

\* The filename with every maximal run of whitespace characters replaced
\* with one hyphen.
RunsReplaced(name) ==
    LET P == RunStarts(name)
        at(k) == CHOOSE i \in P : Cardinality({ j \in P : j < i }) = k - 1
    IN  [ k \in 1 .. Cardinality(P) |->
            IF NoWhitespace(<< name[at(k)] >>) THEN name[at(k)] ELSE "-" ]

\* C16 as amended: the key is "images/", the timestamp, a hyphen and the
\* filename with every maximal run of whitespace characters replaced with
\* one hyphen; it contains no whitespace; the url of the row is the public
\* base URL, "/" and the key.
C16_KeyReplacesWhitespaceRuns ==
    \A a \in Attempts :
        (pc[a] # "idle" /\ image[a].present) =>
            /\ key[a] = << "images/" >> \o ToDigits(stamp[a]) \o << "-" >>
                            \o RunsReplaced(image[a].name)
            /\ NoWhitespace(key[a])
            /\ UrlIsBaseSlashKey(a)

C16_Witness ==
    \E a \in Attempts :
        /\ image[a].name = << "a", " ", " ", "b" >>
        /\ stamp[a] = MaxClock
        /\ key[a] = << "images/" >> \o ToDigits(MaxClock) \o << "-", "a", "-", "b" >>
        /\ Ended(a, "insert", "ok")
        /\ db[1].url = R2_PUBLIC_URL \o << "/" >> \o key[a]

\* C17: an attempt returns success exactly when its insert was invoked and
\* reported success, and the table has one row for each such insert and no
\* other: an attempt that returns a failure has added none.
C17_SuccessIffInsertSucceeded ==
    /\ \A a \in Attempts :
           /\ response[a].success <=> (Returned(a) /\ Ended(a, "insert", "ok"))
           /\ Ended(a, "insert", "ok") => Returned(a)
    /\ Len(db) = Cardinality({ a \in Attempts : Ended(a, "insert", "ok") })

C17_Witness ==
    \E a \in Attempts :
        /\ Returned(a)
        /\ Ended(a, "insert", "throws")
        /\ response[a].status = 500
        /\ db = << >>

\* C18: delete is invoked only in attempts that end in failure; an attempt
\* that returns success has not invoked delete and, served alone, leaves
\* the object of its put in the bucket at its key.
C18_DeleteOnlyOnFailure ==
    \A a \in Attempts :
        /\ Invoked(a, "delete") =>
               /\ ~ response[a].success
               /\ Returned(a) => response[a].status = 500
        /\ (Returned(a) /\ response[a].success) =>
               /\ ~ Invoked(a, "delete")
               /\ key[a] \in DOMAIN store
               /\ store[key[a]] = a

C18_Witness ==
    \E a \in Attempts :
        /\ Returned(a)
        /\ response[a] = SuccessResponse
        /\ Ended(a, "put", "ok")
        /\ ~ Invoked(a, "delete")
        /\ store[key[a]] = a

\* Invocation a has answered with one of the two outcomes.
Outcome(a) ==
    \/ response[a] = SuccessResponse
    \/ response[a].status = 500 /\ ~ response[a].success

\* C19: when the external calls return or fail, a started attempt ends with
\* the success response or with an error response of status 500, never
\* otherwise, and once it has returned it makes no further call.
C19_AttemptTerminates ==
    /\ \A a \in Attempts : (pc[a] # "idle") ~> (Returned(a) /\ Outcome(a))
    /\ [](\A a \in Attempts : pc[a] \in {"idle", "put", "fetch", "describe",
                                         "insert", "delete", "done"})
    /\ [][\A a \in Attempts :
            Returned(a) =>
                /\ pc'[a] = "done"
                /\ calls'[a] = calls[a]
                /\ response'[a] = response[a]
                /\ store' = store
                /\ db' = db]_vars

C19_Witness ==
    \E a \in Attempts :
        /\ Returned(a)
        /\ Ended(a, "fetch", "throws")
        /\ Ended(a, "delete", "throws")
        /\ response[a] = ErrorResponse("fetch failed")

====
